---- MODULE Spec2Model ----
(***************************************************************************)
(* Model of llm.go (mattoat/pr-manager): GenerateCommitMessage,            *)
(* GeneratePRMessage, makeOpenAIRequest, extractQuestions,                 *)
(* askUserQuestions and extractPRDescription.                              *)
(*                                                                         *)
(* A Go string is a sequence of one-character strings.  Long literals of   *)
(* the source that no code inspects character by character are single     *)
(* elements of such a sequence ("<template>"), so concatenation,           *)
(* trimming and formatting work on them as on any other text.  Indices     *)
(* are 0-based as in the source: At(s, i) is s[i], Slice(s, a, b) is       *)
(* s[a:b].                                                                 *)
(***************************************************************************)
EXTENDS Integers, Sequences, FiniteSets, TLC

VARIABLES
    pc,                 \* where the running call stands
    fn,                 \* the function called
    config,             \* its LLMConfig
    systemPrompt,       \* local of GeneratePRMessage
    commits,            \* argument of GeneratePRMessage
    requests,           \* the message lists sent to the API, in order
    replies,            \* what the API answered, in order
    prompts,            \* the questions put to the user, in order
    response,           \* local of GeneratePRMessage
    questionResponses,  \* local of GeneratePRMessage
    hasQuestions,       \* local of GeneratePRMessage
    askIdx,             \* loop index i of askUserQuestions
    ret,                \* the string returned
    err,                \* whether the error returned is non-nil
    input               \* SpecExtract: the parts the response was built from

vars == << pc, fn, config, systemPrompt, commits, requests, replies, prompts,
           response, questionResponses, hasQuestions, askIdx, ret, err,
           input >>

-----------------------------------------------------------------------------
(* Bounds of the model *)

\* longest list of questions a modelled API response carries
MaxListLen == 4
\* SpecExtract: longest question string and longest free text around the
\* embedded object, and longest list of questions
MaxTextLen == 1
MaxExtractListLen == 2

\* extractQuestions keeps at most this many questions
maxQuestions == 3

-----------------------------------------------------------------------------
(* strings *)

At(s, i) == s[i + 1]

Slice(s, a, b) == SubSeq(s, a + 1, b)

SliceFrom(s, a) == SubSeq(s, a + 1, Len(s))

\* unicode.IsSpace, on the characters the model uses
IsSpace(c) == c \in {" ", "\n"}

RECURSIVE TrimLeft(_)
TrimLeft(s) ==
    IF s # << >> /\ IsSpace(Head(s)) THEN TrimLeft(Tail(s)) ELSE s

RECURSIVE TrimRight(_)
TrimRight(s) ==
    IF s # << >> /\ IsSpace(s[Len(s)])
    THEN TrimRight(SubSeq(s, 1, Len(s) - 1))
    ELSE s

\* strings.TrimSpace
TrimSpace(s) == TrimRight(TrimLeft(s))

\* strings.ToLower, on the characters the model uses
LowerChar(c) ==
    CASE c = "S" -> "s"
      [] c = "A" -> "a"
      [] OTHER -> c

ToLower(s) == [i \in 1..Len(s) |-> LowerChar(s[i])]

\* strings.HasPrefix
HasPrefix(s, prefix) ==
    /\ Len(s) >= Len(prefix)
    /\ SubSeq(s, 1, Len(prefix)) = prefix

\* strings.Index: the 0-based index of the first occurrence, -1 if none
RECURSIVE IndexFrom(_, _, _)
IndexFrom(s, sub, i) ==
    IF i + Len(sub) > Len(s) THEN -1
    ELSE IF Slice(s, i, i + Len(sub)) = sub THEN i
    ELSE IndexFrom(s, sub, i + 1)

Index(s, sub) == IndexFrom(s, sub, 0)

\* the literal "{\"questions\":" that extractQuestions searches for
QuestionsMarker ==
    << "{", "\"", "q", "u", "e", "s", "t", "i", "o", "n", "s", "\"", ":" >>

QuestionsKey == << "q", "u", "e", "s", "t", "i", "o", "n", "s" >>

-----------------------------------------------------------------------------
(* encoding/json: Unmarshal into struct{ Questions []string }.             *)
(* JSON values over the model's characters: strings (no escapes),          *)
(* arrays, objects and the literals true, false, null.                     *)

IsJSONSpace(c) == c \in {" ", "\n"}

RECURSIVE SkipWS(_, _)
SkipWS(s, i) ==
    IF i <= Len(s) /\ IsJSONSpace(s[i]) THEN SkipWS(s, i + 1) ELSE i

Fail == [ok |-> FALSE, next |-> 0, kind |-> "none", str |-> << >>,
         elems |-> << >>, members |-> << >>]

Parsed(n, k, st, el, mem) ==
    [ok |-> TRUE, next |-> n, kind |-> k, str |-> st,
     elems |-> el, members |-> mem]

\* the closing quote of the string opened before position i, 0 if none;
\* a control character inside a string is invalid
RECURSIVE StringEnd(_, _)
StringEnd(s, i) ==
    IF i > Len(s) THEN 0
    ELSE IF s[i] = "\"" THEN i
    ELSE IF s[i] = "\n" THEN 0
    ELSE StringEnd(s, i + 1)

ParseString(s, i) ==
    LET j == StringEnd(s, i + 1)
    IN  IF j = 0 THEN Fail
        ELSE Parsed(j + 1, "string", SubSeq(s, i + 1, j - 1), << >>, << >>)

MatchAt(s, i, lit) ==
    /\ i + Len(lit) - 1 <= Len(s)
    /\ SubSeq(s, i, i + Len(lit) - 1) = lit

RECURSIVE ParseValue(_, _)
RECURSIVE ParseElems(_, _, _)
RECURSIVE ParseMembers(_, _, _)

ParseArray(s, i) ==
    LET j == SkipWS(s, i + 1)
    IN  IF j > Len(s) THEN Fail
        ELSE IF s[j] = "]" THEN Parsed(j + 1, "array", << >>, << >>, << >>)
        ELSE ParseElems(s, j, << >>)

ParseObject(s, i) ==
    LET j == SkipWS(s, i + 1)
    IN  IF j > Len(s) THEN Fail
        ELSE IF s[j] = "}" THEN Parsed(j + 1, "object", << >>, << >>, << >>)
        ELSE ParseMembers(s, j, << >>)

ParseValue(s, i) ==
    IF i > Len(s) THEN Fail
    ELSE IF s[i] = "\"" THEN ParseString(s, i)
    ELSE IF s[i] = "[" THEN ParseArray(s, i)
    ELSE IF s[i] = "{" THEN ParseObject(s, i)
    ELSE IF MatchAt(s, i, << "n", "u", "l", "l" >>)
         THEN Parsed(i + 4, "null", << >>, << >>, << >>)
    ELSE IF MatchAt(s, i, << "t", "r", "u", "e" >>)
         THEN Parsed(i + 4, "bool", << >>, << >>, << >>)
    ELSE IF MatchAt(s, i, << "f", "a", "l", "s", "e" >>)
         THEN Parsed(i + 5, "bool", << >>, << >>, << >>)
    ELSE Fail

ParseElems(s, i, acc) ==
    LET v == ParseValue(s, i)
        k == SkipWS(s, v.next)
        acc2 == Append(acc, [kind |-> v.kind, str |-> v.str])
    IN  IF ~v.ok \/ k > Len(s) THEN Fail
        ELSE IF s[k] = "," THEN ParseElems(s, SkipWS(s, k + 1), acc2)
        ELSE IF s[k] = "]" THEN Parsed(k + 1, "array", << >>, acc2, << >>)
        ELSE Fail

ParseMembers(s, i, acc) ==
    IF i > Len(s) \/ s[i] # "\"" THEN Fail
    ELSE
    LET key == ParseString(s, i)
        c == SkipWS(s, key.next)
    IN  IF ~key.ok \/ c > Len(s) \/ s[c] # ":" THEN Fail
        ELSE
        LET v == ParseValue(s, SkipWS(s, c + 1))
            k == SkipWS(s, v.next)
            acc2 == Append(acc, [key |-> key.str, kind |-> v.kind,
                                 elems |-> v.elems])
        IN  IF ~v.ok \/ k > Len(s) THEN Fail
            ELSE IF s[k] = "," THEN ParseMembers(s, SkipWS(s, k + 1), acc2)
            ELSE IF s[k] = "}" THEN Parsed(k + 1, "object", << >>, << >>, acc2)
            ELSE Fail

\* one "questions" member decoded into the []string field
DecodeQuestions(member, cur) ==
    IF member.kind = "null" THEN cur
    ELSE IF member.kind # "array"
         THEN [Questions |-> cur.Questions, err |-> TRUE]
    ELSE [Questions |->
             [n \in 1..Len(member.elems) |->
                 IF member.elems[n].kind = "string"
                 THEN member.elems[n].str ELSE << >>],
          err |-> cur.err \/ \E n \in 1..Len(member.elems) :
                     member.elems[n].kind \notin {"string", "null"}]

RECURSIVE DecodeMembers(_, _, _)
DecodeMembers(members, n, cur) ==
    IF n > Len(members) THEN cur
    ELSE DecodeMembers(members, n + 1,
            IF ToLower(members[n].key) = QuestionsKey
            THEN DecodeQuestions(members[n], cur)
            ELSE cur)

\* json.Unmarshal(data, &questionsObj): [Questions, err]
Unmarshal(data) ==
    LET v == ParseValue(data, SkipWS(data, 1))
        none == [Questions |-> << >>, err |-> FALSE]
    IN  IF ~v.ok \/ SkipWS(data, v.next) <= Len(data)
        THEN [Questions |-> << >>, err |-> TRUE]
        ELSE IF v.kind = "null" THEN none
        ELSE IF v.kind # "object" THEN [Questions |-> << >>, err |-> TRUE]
        ELSE DecodeMembers(v.members, 1, none)

-----------------------------------------------------------------------------
(* extractQuestions *)

\* the loop of lines 340-350: the index of the '}' at which braceCount
\* returns to 0, or -1
RECURSIVE ScanBraces(_, _, _)
ScanBraces(resp, i, braceCount) ==
    IF i >= Len(resp) THEN -1
    ELSE IF At(resp, i) = "{" THEN ScanBraces(resp, i + 1, braceCount + 1)
    ELSE IF At(resp, i) = "}"
         THEN IF braceCount - 1 = 0 THEN i
              ELSE ScanBraces(resp, i + 1, braceCount - 1)
    ELSE ScanBraces(resp, i + 1, braceCount)

\* endIdx as lines 337-357 leave it; -1 stands for the early return
EndIdx(resp, startIdx) ==
    LET scanned == ScanBraces(resp, startIdx, 0)
    IN  IF scanned # -1 THEN scanned
        ELSE Index(SliceFrom(resp, startIdx), << "}" >>) + startIdx

\* the substring handed to json.Unmarshal (line 359)
JsonStr(resp) ==
    LET startIdx == Index(resp, QuestionsMarker)
        endIdx == EndIdx(resp, startIdx)
    IN  Slice(resp, startIdx, endIdx + 1)

NoQuestions == [questions |-> << >>, ok |-> FALSE]

Truncate(qs) ==
    IF Len(qs) > maxQuestions THEN SubSeq(qs, 1, maxQuestions) ELSE qs

extractQuestions(resp) ==
    LET startIdx == Index(resp, QuestionsMarker)
    IN  IF startIdx = -1 THEN NoQuestions
        ELSE IF EndIdx(resp, startIdx) = -1 THEN NoQuestions
        ELSE
        LET obj == Unmarshal(JsonStr(resp))
            qs == Truncate(obj.Questions)
        IN  IF obj.err THEN NoQuestions
            ELSE IF Len(obj.Questions) = 0 THEN NoQuestions
            ELSE [questions |->
                     [n \in 1..Len(qs) |->
                         [Question |-> qs[n], Answer |-> << >>]],
                  ok |-> Len(qs) > 0]

-----------------------------------------------------------------------------
(* extractPRDescription *)

extractPRDescription(resp) ==
    IF TrimSpace(resp) = << >> \/ HasPrefix(TrimSpace(resp), QuestionsMarker)
    THEN << >>
    ELSE
    LET startIdx == Index(resp, QuestionsMarker)
        endIdx == ScanBraces(resp, startIdx, 0)
        beforeQuestions == TrimSpace(Slice(resp, 0, startIdx))
        afterQuestions == TrimSpace(SliceFrom(resp, endIdx + 1))
    IN  IF startIdx = -1 THEN resp
        ELSE IF endIdx = -1 THEN resp
        ELSE IF beforeQuestions # << >> /\ afterQuestions # << >>
             THEN beforeQuestions \o << "\n", "\n" >> \o afterQuestions
        ELSE IF beforeQuestions # << >> THEN beforeQuestions
        ELSE IF afterQuestions # << >> THEN afterQuestions
        ELSE << >>

-----------------------------------------------------------------------------
(* prompts and messages *)

\* fmt.Sprintf with string operands: "%s" is the only verb the formats of
\* llm.go hold; a verb without operand prints %!s(MISSING), operands left
\* over are appended as %!(EXTRA string=..., string=...)
RECURSIVE ExtraOperands(_, _)
ExtraOperands(args, k) ==
    IF k > Len(args) THEN << >>
    ELSE (IF k > 1 THEN << ", " >> ELSE << >>)
         \o << "string=" >> \o args[k] \o ExtraOperands(args, k + 1)

RECURSIVE SprintfFrom(_, _, _, _)
SprintfFrom(format, i, args, k) ==
    IF i > Len(format)
    THEN IF k <= Len(args)
         THEN << "%!(EXTRA " >> \o ExtraOperands(SubSeq(args, k, Len(args)), 1)
              \o << ")" >>
         ELSE << >>
    ELSE IF format[i] = "%s"
         THEN IF k <= Len(args)
              THEN args[k] \o SprintfFrom(format, i + 1, args, k + 1)
              ELSE << "%!s(MISSING)" >> \o SprintfFrom(format, i + 1, args, k)
    ELSE << format[i] >> \o SprintfFrom(format, i + 1, args, k)

Sprintf(format, args) == SprintfFrom(format, 1, args, 1)

QuestionsInstructions == "<If you need additional information ... you can ask up to 3 questions ...>"

getQuestionsPrompt(enableQuestions) ==
    IF enableQuestions THEN << QuestionsInstructions >> ELSE << >>

\* the literal of lines 178-185, with its two %s
PRInstructions ==
    << "<You are a professional software engineer ... creating a pull request ...>",
       "%s",
       "<Use the following template format for your response:>",
       "%s" >>

\* the literal of lines 94-112, with its %s
CommitInstructions ==
    << "<You are a professional software engineer ... writing a commit message ...>",
       "%s" >>

\* line 178: the questions prompt is the format, the literal and the
\* template are its operands
PRSystemPrompt(cfg, template) ==
    Sprintf(getQuestionsPrompt(cfg.EnableQuestions),
            << PRInstructions, template >>)

CommitSystemPrompt(template) == Sprintf(CommitInstructions, << template >>)

ChatMessage(role, content) == [Role |-> role, Content |-> content]

CommitsMessage(cs) ==
    ChatMessage("user",
        Sprintf(<< "Here are the commit messages from the branch:", "\n", "\n",
                   "%s" >>, << cs >>))

DiffMessage(diff) ==
    ChatMessage("user",
        Sprintf(<< "Here is the git diff:", "\n", "\n", "%s" >>, << diff >>))

NeedInfoMessage ==
    ChatMessage("assistant",
        << "I need some additional information to write a better PR description." >>)

FinalPromptMessage ==
    ChatMessage("user",
        << "Now that you have this additional information, please generate a comprehensive PR description using the template provided earlier." >>)

\* AnsweredMessages without the test of line 231
RECURSIVE AllQuestionMessages(_, _)
AllQuestionMessages(qas, n) ==
    IF n > Len(qas) THEN << >>
    ELSE << ChatMessage("assistant", qas[n].Question),
            ChatMessage("user", qas[n].Answer) >>
         \o AllQuestionMessages(qas, n + 1)

\* lines 230-237: question and answer of every answered question
RECURSIVE AnsweredMessages(_, _)
AnsweredMessages(qas, n) ==
    IF n > Len(qas) THEN << >>
    ELSE (IF qas[n].Answer # << >>
          THEN << ChatMessage("assistant", qas[n].Question),
                  ChatMessage("user", qas[n].Answer) >>
          ELSE << >>)
         \o AnsweredMessages(qas, n + 1)

\* lines 223-243
newMessages(sysPrompt, cs, qas) ==
    << ChatMessage("system", sysPrompt), CommitsMessage(cs), NeedInfoMessage >>
    \o AnsweredMessages(qas, 1)
    \o << FinalPromptMessage >>

\* anyAnswered testing that questions were put, not that one was answered
anyAsked(qas) == Len(qas) > 0

\* lines 210-216
anyAnswered(qas) == \E n \in 1..Len(qas) : qas[n].Answer # << >>

-----------------------------------------------------------------------------
(* the API *)

\* what one HTTP exchange yields: client.Do fails, reading the body fails,
\* the body is not JSON for ChatResponse, or it decodes to Error and Choices
Reply(sendErr, readErr, decodable, error, choices) ==
    [sendErr |-> sendErr, readErr |-> readErr, decodable |-> decodable,
     Error |-> error, Choices |-> choices]

\* makeOpenAIRequest without the check of lines 318-320
makeOpenAIRequestErrorFieldIgnored(reply) ==
    IF reply.sendErr THEN [content |-> << >>, err |-> TRUE]
    ELSE IF reply.readErr THEN [content |-> << >>, err |-> TRUE]
    ELSE IF ~reply.decodable THEN [content |-> << >>, err |-> TRUE]
    ELSE IF Len(reply.Choices) = 0 THEN [content |-> << >>, err |-> TRUE]
    ELSE [content |-> reply.Choices[1], err |-> FALSE]

\* lines 300-326: [content, err] of makeOpenAIRequest for a reply
makeOpenAIRequest(reply) ==
    IF reply.sendErr THEN [content |-> << >>, err |-> TRUE]
    ELSE IF reply.readErr THEN [content |-> << >>, err |-> TRUE]
    ELSE IF ~reply.decodable THEN [content |-> << >>, err |-> TRUE]
    ELSE IF reply.Error THEN [content |-> << >>, err |-> TRUE]
    ELSE IF Len(reply.Choices) = 0 THEN [content |-> << >>, err |-> TRUE]
    ELSE [content |-> reply.Choices[1], err |-> FALSE]

-----------------------------------------------------------------------------
(* inputs *)

SeqsUpTo(S, n) == UNION {[1..m -> S] : m \in 0..n}

\* a well-formed {"questions": ["...", "..."]} as the prompt of lines
\* 266-272 asks the model to write it
RECURSIVE EncodeStrings(_, _)
EncodeStrings(qs, n) ==
    IF n > Len(qs) THEN << >>
    ELSE (IF n > 1 THEN << ",", " " >> ELSE << >>)
         \o << "\"" >> \o qs[n] \o << "\"" >>
         \o EncodeStrings(qs, n + 1)

EncodeQuestions(qs) ==
    QuestionsMarker \o << " ", "[" >> \o EncodeStrings(qs, 1) \o << "]", "}" >>

Embed(pre, qs, post) == pre \o EncodeQuestions(qs) \o post

Letters == << "a", "b", "c", "d", "e", "f" >>

\* the n-th question an API reply asks
QuestionText(n) == << "q", Letters[n] >>

QuestionList(len) == [n \in 1..len |-> QuestionText(n)]

Configs ==
    [APIKey : {<< >>, << "<OPENAI_KEY>" >>}, EnableQuestions : BOOLEAN]

Templates == {<< "<template>" >>}

CommitLists == {<< "<commits>" >>}

Diffs == {<< "<diff>" >>}

\* contents of a first reply: free text, with and without a questions
\* object
FirstContents ==
    {<< >>, << " ", "x", "\n" >>, << "{", "x", "}" >>,
     Embed(<< >>, << << "a", "}" >> >>, << >>)}
    \cup {Embed(pre, QuestionList(len), post) :
            pre \in {<< >>, << "x", " " >>},
            len \in 0..MaxListLen,
            post \in {<< >>, << "\n", "y", "\n" >>}}

SecondContents ==
    {<< >>, << " ", "d", "\n" >>, Embed(<< "d" >>, QuestionList(1), << >>)}

Failures ==
    {Reply(TRUE, FALSE, FALSE, FALSE, << >>),
     Reply(FALSE, TRUE, FALSE, FALSE, << >>),
     Reply(FALSE, FALSE, FALSE, FALSE, << >>),
     Reply(FALSE, FALSE, TRUE, TRUE, << >>),
     Reply(FALSE, FALSE, TRUE, TRUE, << << "x" >> >>),
     Reply(FALSE, FALSE, TRUE, FALSE, << >>)}

Successes(contents) ==
    {Reply(FALSE, FALSE, TRUE, FALSE, << c >>) : c \in contents}

\* the lines the user types at "Your answer: "
Lines ==
    {<< "\n" >>,
     << " ", "y", " ", "\n" >>,
     << "n", "o", "\n" >>,
     << "S", "k", "i", "p", " ", "A", "l", "l", "\n" >>,
     << "s", "k", "i", "p", "a", "l", "l", "\n" >>}

NoInput == [pre |-> << >>, questions |-> << >>, post |-> << >>]

-----------------------------------------------------------------------------
(* the calls *)

Init ==
    /\ pc = "idle"
    /\ fn = "none"
    /\ config = [APIKey |-> << >>, EnableQuestions |-> FALSE]
    /\ systemPrompt = << >>
    /\ commits = << >>
    /\ requests = << >>
    /\ replies = << >>
    /\ prompts = << >>
    /\ response = << >>
    /\ questionResponses = << >>
    /\ hasQuestions = FALSE
    /\ askIdx = 0
    /\ ret = << >>
    /\ err = FALSE
    /\ input = NoInput

\* MissingKey with the check left out
MissingKeyIgnored(cfg) == FALSE

\* lines 89 and 173
MissingKey(cfg) == cfg.APIKey = << >>

\* ShouldAsk without "&& config.EnableQuestions"
ShouldAskIgnoringConfig(has, cfg) == has

\* line 203
ShouldAsk(has, cfg) == has /\ cfg.EnableQuestions

Return(value, error) ==
    /\ pc' = "done"
    /\ ret' = value
    /\ err' = error

\* GenerateCommitMessage, lines 88-142: up to the request being sent
CallGenerateCommitMessage(diff, cfg, template) ==
    /\ pc = "idle"
    /\ fn' = "GenerateCommitMessage"
    /\ config' = cfg
    /\ IF MissingKey(cfg)
       THEN /\ Return(<< >>, TRUE)
            /\ UNCHANGED requests
       ELSE /\ requests' = Append(requests,
                   << ChatMessage("system", CommitSystemPrompt(template)),
                      DiffMessage(diff) >>)
            /\ pc' = "commit_request"
            /\ UNCHANGED << ret, err >>
    /\ UNCHANGED << systemPrompt, commits, replies, prompts, response,
                    questionResponses, hasQuestions, askIdx, input >>

\* GenerateCommitMessage, lines 142-168: from the reply to the return
CommitReply(reply) ==
    /\ pc = "commit_request"
    /\ replies' = Append(replies, reply)
    /\ LET r == makeOpenAIRequest(reply)
       IN  IF r.err THEN Return(<< >>, TRUE)
           ELSE Return(TrimSpace(r.content), FALSE)
    /\ UNCHANGED << fn, config, systemPrompt, commits, requests, prompts,
                    response, questionResponses, hasQuestions, askIdx, input >>

\* GeneratePRMessage, lines 172-196: up to the first request being sent
CallGeneratePRMessage(cs, cfg, template) ==
    /\ pc = "idle"
    /\ fn' = "GeneratePRMessage"
    /\ config' = cfg
    /\ IF MissingKey(cfg)
       THEN /\ Return(<< >>, TRUE)
            /\ UNCHANGED << systemPrompt, commits, requests >>
       ELSE /\ systemPrompt' = PRSystemPrompt(cfg, template)
            /\ commits' = cs
            /\ requests' = Append(requests,
                   << ChatMessage("system", systemPrompt'),
                      CommitsMessage(cs) >>)
            /\ pc' = "first_request"
            /\ UNCHANGED << ret, err >>
    /\ UNCHANGED << replies, prompts, response, questionResponses,
                    hasQuestions, askIdx, input >>

\* GeneratePRMessage, lines 196-207 and 259-260: from the first reply to
\* the first question put to the user, or to the return
FirstReply(reply) ==
    /\ pc = "first_request"
    /\ replies' = Append(replies, reply)
    /\ LET r == makeOpenAIRequest(reply)
           x == extractQuestions(r.content)
       IN  IF r.err
           THEN /\ Return(<< >>, TRUE)
                /\ UNCHANGED << response, questionResponses, hasQuestions >>
           ELSE /\ response' = r.content
                /\ questionResponses' = x.questions
                /\ hasQuestions' = x.ok
                /\ IF ShouldAsk(x.ok, config)
                   THEN /\ pc' = "asking"
                        /\ UNCHANGED << ret, err >>
                   ELSE Return(TrimSpace(r.content), FALSE)
    /\ UNCHANGED << fn, config, systemPrompt, commits, requests, prompts,
                    askIdx, input >>

\* lines 405-415: the answer read at index i and, on "skip all", the
\* answers after it emptied
SkipsAll(answer) ==
    \/ ToLower(answer) = << "s", "k", "i", "p", " ", "a", "l", "l" >>
    \/ ToLower(answer) = << "s", "k", "i", "p", "a", "l", "l" >>

Answered(qas, i, answer) ==
    [n \in 1..Len(qas) |->
        IF n = i + 1 THEN [qas[n] EXCEPT !.Answer = answer]
        ELSE IF SkipsAll(answer) /\ n > i + 1
             THEN [qas[n] EXCEPT !.Answer = << >>]
        ELSE qas[n]]

\* askUserQuestions, lines 401-417: one question put and its answer read;
\* after the last one, GeneratePRMessage lines 209-260: the second request
\* sent, or the return
AskUser(line) ==
    /\ pc = "asking"
    /\ LET answer == TrimSpace(line)
           qas == Answered(questionResponses, askIdx, answer)
           last == SkipsAll(answer) \/ askIdx + 1 >= Len(questionResponses)
       IN  /\ prompts' = Append(prompts, questionResponses[askIdx + 1].Question)
           /\ questionResponses' = qas
           /\ IF ~last
              THEN /\ askIdx' = askIdx + 1
                   /\ UNCHANGED << pc, requests, response, ret, err >>
              ELSE /\ UNCHANGED askIdx
                   /\ IF anyAnswered(qas)
                      THEN /\ requests' = Append(requests,
                                  newMessages(systemPrompt, commits, qas))
                           /\ pc' = "second_request"
                           /\ UNCHANGED << response, ret, err >>
                      ELSE /\ response' = extractPRDescription(response)
                           /\ Return(TrimSpace(response'), FALSE)
                           /\ UNCHANGED requests
    /\ UNCHANGED << fn, config, systemPrompt, commits, replies, hasQuestions,
                    input >>

\* GeneratePRMessage, lines 248-260: from the second reply to the return
SecondReply(reply) ==
    /\ pc = "second_request"
    /\ replies' = Append(replies, reply)
    /\ LET r == makeOpenAIRequest(reply)
       IN  IF r.err
           THEN /\ Return(<< >>, TRUE)
                /\ UNCHANGED response
           ELSE /\ response' = r.content
                /\ Return(TrimSpace(r.content), FALSE)
    /\ UNCHANGED << fn, config, systemPrompt, commits, requests, prompts,
                    questionResponses, hasQuestions, askIdx, input >>

Next ==
    \/ \E d \in Diffs, cfg \in Configs, t \in Templates :
          CallGenerateCommitMessage(d, cfg, t)
    \/ \E reply \in Failures \cup Successes(SecondContents) :
          CommitReply(reply)
    \/ \E cs \in CommitLists, cfg \in Configs, t \in Templates :
          CallGeneratePRMessage(cs, cfg, t)
    \/ \E reply \in Failures \cup Successes(FirstContents) :
          FirstReply(reply)
    \/ \E line \in Lines : AskUser(line)
    \/ \E reply \in Failures \cup Successes(SecondContents) :
          SecondReply(reply)

Spec == Init /\ [][Next]_vars

-----------------------------------------------------------------------------
(* extractQuestions on its own *)

TextChars == {"x", "{", "}"}

QuestionChars == {"a", "{", "}"}

ExtractInputs ==
    [pre : SeqsUpTo(TextChars, MaxTextLen),
     questions : SeqsUpTo(SeqsUpTo(QuestionChars, MaxTextLen),
                          MaxExtractListLen) \ {<< >>},
     post : SeqsUpTo(TextChars, MaxTextLen)]

InitExtract ==
    /\ Init!2 /\ Init!3 /\ Init!4 /\ Init!5 /\ Init!6 /\ Init!7 /\ Init!8
    /\ Init!10 /\ Init!11 /\ Init!12 /\ Init!13 /\ Init!14
    /\ pc = "extract"
    /\ input \in ExtractInputs
    /\ response = Embed(input.pre, input.questions, input.post)

ApplyExtractQuestions ==
    /\ pc = "extract"
    /\ pc' = "extracted"
    /\ questionResponses' = extractQuestions(response).questions
    /\ hasQuestions' = extractQuestions(response).ok
    /\ UNCHANGED << fn, config, systemPrompt, commits, requests, replies,
                    prompts, response, askIdx, ret, err, input >>

NextExtract == ApplyExtractQuestions

SpecExtract == InitExtract /\ [][NextExtract]_vars

-----------------------------------------------------------------------------
(* properties *)

InPR == fn = "GeneratePRMessage"

\* a reply that is a failed request
Failed(reply) ==
    \/ reply.sendErr
    \/ reply.readErr
    \/ ~reply.decodable
    \/ reply.Error
    \/ reply.Choices = << >>

Content(reply) == reply.Choices[1]

White(c) == c \in {" ", "\n"}

\* r is s without its leading and trailing whitespace
IsTrimmed(r, s) ==
    \E a \in 0..Len(s) : \E b \in a..Len(s) :
        /\ r = SubSeq(s, a + 1, b)
        /\ \A k \in 1..a : White(s[k])
        /\ \A k \in (b + 1)..Len(s) : White(s[k])
        /\ r # << >> => ~White(r[1]) /\ ~White(r[Len(r)])

SomeAnswer == \E n \in 1..Len(questionResponses) :
                  questionResponses[n].Answer # << >>

\* the questions were all put and answered, or "skip all" ended the loop
AskingOver == pc \in {"second_request", "done"}

\* C1: GeneratePRMessage makes at most two requests; it makes the second
\* one exactly when the first succeeded, EnableQuestions is set,
\* extractQuestions reported questions and some answer is non-empty; the
\* second reply's text is returned trimmed and leads to no further
\* question, whatever it holds.
C1_AtMostTwoRequests ==
    InPR =>
      /\ Len(requests) <= 2
      /\ Len(prompts) <= maxQuestions
      /\ Len(requests) = 2 =>
            /\ ~Failed(replies[1])
            /\ config.EnableQuestions
            /\ hasQuestions
            /\ SomeAnswer
      /\ ( /\ AskingOver
           /\ Len(replies) >= 1 /\ ~Failed(replies[1])
           /\ config.EnableQuestions /\ hasQuestions /\ SomeAnswer )
         => Len(requests) = 2
      /\ Len(replies) = 2 =>
            /\ pc = "done"
            /\ Len(prompts) <= Len(questionResponses)
            /\ ~Failed(replies[2]) => IsTrimmed(ret, Content(replies[2]))

\* a second reply that itself holds a questions object has been returned
C1_Witness ==
    /\ InPR /\ pc = "done" /\ Len(replies) = 2 /\ ~Failed(replies[2])
    /\ Index(Content(replies[2]), QuestionsMarker) # -1
    /\ Len(requests) = 2

\* the answered questions, in the order of questionResponses
AnsweredOnes ==
    SelectSeq(questionResponses, LAMBDA q : q.Answer # << >>)

\* the questions of the object the first reply embeds, cut to maxQuestions
ExtractedOrder(content) ==
    CHOOSE qs \in {QuestionList(len) : len \in 0..maxQuestions} :
        \E pre \in {<< >>, << "x", " " >>},
           post \in {<< >>, << "\n", "y", "\n" >>},
           more \in 0..(MaxListLen - Len(qs)) :
            /\ more > 0 => Len(qs) = maxQuestions
            /\ content = Embed(pre, QuestionList(Len(qs) + more), post)

\* C2: the second request replays the system and commit-list messages of
\* the first, then the fixed assistant message, then question and answer
\* of each answered question in extraction order, then the final user
\* message; unanswered questions add nothing.
C2_ConversationReplay ==
    (InPR /\ Len(requests) = 2) =>
      LET first == requests[1]
          second == requests[2]
          qa == AnsweredOnes
      IN  /\ Len(second) = 4 + 2 * Len(qa)
          /\ second[1] = first[1] /\ second[1].Role = "system"
          /\ second[2] = first[2] /\ second[2].Role = "user"
          /\ second[3] = [Role |-> "assistant", Content |->
                << "I need some additional information to write a better PR description." >>]
          /\ \A k \in 1..Len(qa) :
                /\ second[2 + 2 * k] =
                      [Role |-> "assistant", Content |-> qa[k].Question]
                /\ second[3 + 2 * k] =
                      [Role |-> "user", Content |-> qa[k].Answer]
          /\ second[Len(second)] = [Role |-> "user", Content |->
                << "Now that you have this additional information, please generate a comprehensive PR description using the template provided earlier." >>]
          /\ [n \in 1..Len(questionResponses) |->
                 questionResponses[n].Question]
             = ExtractedOrder(Content(replies[1]))

\* a second request after the first and the third question were answered
\* and the second was not
C2_Witness ==
    /\ InPR /\ Len(requests) = 2
    /\ Len(questionResponses) = 3
    /\ questionResponses[1].Answer # << >>
    /\ questionResponses[2].Answer = << >>
    /\ questionResponses[3].Answer # << >>
    /\ questionResponses[1].Answer # questionResponses[3].Answer

\* C3: for a response that embeds a well-formed questions object in any
\* text, extractQuestions hands the parser exactly that object and
\* reports questions.
C3_MatchingBraceFound ==
    pc = "extracted" =>
      /\ JsonStr(response) = EncodeQuestions(input.questions)
      /\ hasQuestions

\* C4: with an empty API key either function returns "" and an error,
\* with no request sent and nothing asked.
C4_MissingKey ==
    (pc # "idle" /\ config.APIKey = << >>) =>
      /\ pc = "done"
      /\ ret = << >>
      /\ err
      /\ requests = << >>
      /\ replies = << >>
      /\ prompts = << >>

C4_Witness ==
    /\ InPR /\ pc = "done" /\ config.APIKey = << >>
    /\ config.EnableQuestions

\* C5: a failed request makes GeneratePRMessage return "" and an error;
\* after a failed first request nothing is asked and no second request is
\* sent; a failed second request does not return the first reply's text.
C5_FailedRequest ==
    InPR =>
      /\ (Len(replies) >= 1 /\ Failed(replies[1])) =>
            /\ pc = "done" /\ ret = << >> /\ err
            /\ prompts = << >>
            /\ Len(requests) = 1 /\ Len(replies) = 1
      /\ (Len(replies) = 2 /\ Failed(replies[2])) =>
            /\ pc = "done" /\ ret = << >> /\ err

\* the second request failed with an error field beside a choice, after a
\* first reply that holds text around its questions
C5_Witness ==
    /\ InPR /\ pc = "done" /\ Len(replies) = 2
    /\ replies[2].Error /\ replies[2].Choices # << >>
    /\ Index(Content(replies[1]), QuestionsMarker) > 0

====
